---- MODULE Spec2Model ----
(***************************************************************************)
(* A model of streamlit_app.py: the bracket-table normaliser               *)
(* (sanitize_brackets), the progressive-slab calculator                    *)
(* (apply_progressive), the per-country local layer and the US overlay.    *)
(*                                                                         *)
(* Numbers.  The script computes in Python floats.  Here every money       *)
(* amount is an integer count of ticks, one tick being TickValue currency  *)
(* units, and every rate is an integer count of 1/RateScale.  The inputs   *)
(* are multiples of Unit ticks and the rates multiples of 0.05, for which   *)
(* every product and quotient below is exact: the model is exact           *)
(* arithmetic on those inputs, and says nothing of float rounding.         *)
(*                                                                         *)
(* Null.  A missing Upper_Limit or Rate (None, or NaN in a float column;   *)
(* pd.isna holds of both) is the empty tuple None, and a present value v   *)
(* is the tuple <<v>>.                                                     *)
(***************************************************************************)
EXTENDS Integers, Sequences, FiniteSets

VARIABLES
    df,          \* the raw bracket rows handed to sanitize_brackets
    tie_order,   \* how this build's argsort orders rows of equal key
    stage,       \* where the bracket run is
    out,         \* sanitize_brackets(df)
    out2,        \* sanitize_brackets(out)
    calls,       \* the apply_progressive calls made on df, in order
    inp,         \* the widget values one run of the script reads
    loc,         \* the local layer's variables (lines 126-133)
    ovl,         \* what the US Overlay block showed and computed
    pc           \* where the run of the script is

bvars == <<df, tie_order, stage, out, out2, calls>>

avars == <<inp, loc, ovl, pc>>

vars == <<df, tie_order, stage, out, out2, calls, inp, loc, ovl, pc>>

----------------------------------------------------------------------------
(* Representation *)

\* Rates are counted in 1/RateScale: 0.10 is 100, 1.0 is 1000, 15 is 15000.
RateScale == 1000

\* The 100.0 of line 19 (a whole percentage is divided by it).
PERCENT == 100

\* Currency units in one tick.
TickValue == 25

\* Ticks in one step of the enumerated amounts (500,000 currency units).
Unit == 500000 \div TickValue

None == <<>>

Some(v) == <<v>>

isna(x) == x = None

\* x * r for a money amount x and a rate r.
Times(x, r) == (x * r) \div RateScale

Max(a, b) == IF a >= b THEN a ELSE b

Min(a, b) == IF a <= b THEN a ELSE b

----------------------------------------------------------------------------
(* sanitize_brackets, lines 14-24 *)

\* Line 17: the schedule returned for a missing or empty table.
EmptySchedule == << [Upper_Limit |-> None, Rate |-> Some(0)] >>

\* Line 19, the lambda: a rate above 1 is a percentage; None becomes 0.0.
NormRate(r) ==
    IF ~isna(r) /\ r[1] > RateScale
    THEN Some(r[1] \div PERCENT)
    ELSE IF isna(r) THEN Some(0) ELSE r

\* Line 19: the lambda applied to the Rate column.
ApplyRate(rows) ==
    [i \in 1..Len(rows) |->
        [Upper_Limit |-> rows[i].Upper_Limit, Rate |-> NormRate(rows[i].Rate)]]

\* Line 20, the sort key s.fillna(np.inf): a < b on keys, None being +inf.
KeyLess(a, b) == ~isna(a) /\ (isna(b) \/ a[1] < b[1])

\* Insert row r into the sorted sequence s after every row whose key is not
\* greater than r's.
RECURSIVE InsertRow(_, _)
InsertRow(s, r) ==
    IF s = <<>> THEN <<r>>
    ELSE IF KeyLess(r.Upper_Limit, Head(s).Upper_Limit)
         THEN <<r>> \o s
         ELSE <<Head(s)>> \o InsertRow(Tail(s), r)

RECURSIVE StableSort(_)
StableSort(rows) ==
    IF rows = <<>> THEN <<>>
    ELSE InsertRow(StableSort(SubSeq(rows, 1, Len(rows) - 1)), rows[Len(rows)])

Reverse(rows) == [i \in 1..Len(rows) |-> rows[Len(rows) + 1 - i]]

\* Line 20: sort_values(by Upper_Limit, key fillna(inf)).reset_index().  The
\* default kind is quicksort, which is not stable: rows of equal key come out
\* in an order the build fixes.  Two such orders are modelled, the input
\* order ("stable") and its reverse ("reversed").
TieOrders == {"stable", "reversed"}

sort_values(rows, kind) ==
    IF kind = "stable" THEN StableSort(rows) ELSE StableSort(Reverse(rows))

\* Line 21: out["Upper_Limit"].isna().sum().
NullCount(rows) == Cardinality({i \in 1..Len(rows) : isna(rows[i].Upper_Limit)})

\* A variant of lines 21-23 that never appends the terminal row.
AppendTerminalOmitted(rows) == rows

\* Lines 21-23: the terminal row, appended when no row has a null cap; its
\* rate is the rate of the last row after the sort.

AppendTerminal(rows) ==
    IF NullCount(rows) = 0
    THEN Append(rows, [Upper_Limit |-> None, Rate |-> rows[Len(rows)].Rate])
    ELSE rows

sanitize_brackets(rows, kind) ==
    IF Len(rows) = 0 THEN EmptySchedule
    ELSE AppendTerminal(sort_values(ApplyRate(rows), kind))

----------------------------------------------------------------------------
(* apply_progressive, lines 26-56 *)

\* Line 37: the row's rate, 0.0 when it is missing.
RowRate(r) == IF isna(r) THEN 0 ELSE r[1]

\* Lines 38-41: the part of rem this slab takes.
SlabAmt(rem, cap, prev_cap) ==
    IF isna(cap) THEN Max(0, rem)
    ELSE Max(0, Min(rem, cap[1] - prev_cap))

\* Line 42.
SlabTax(slab_amt, rate) == Times(slab_amt, rate)

\* A variant of line 51 that assigns: tax = slab_tax.
AddTaxOverwrites(tax, slab_tax) == slab_tax

\* Line 51: tax += slab_tax.

AddTax(tax, slab_tax) == tax + slab_tax

\* Lines 44-50: the breakdown row of a slab.
SlabRow(prev_cap, cap, rate, slab_amt, slab_tax) ==
    [From |-> prev_cap, To |-> cap, Rate |-> rate,
     Amount |-> slab_amt, Tax |-> slab_tax]

\* Lines 35-55: the loop over the sanitized rows, from row i on.
RECURSIVE Slabs(_, _, _, _, _, _)
Slabs(sched, i, rem, prev_cap, tax, rows) ==
    IF i > Len(sched) THEN [tax |-> tax, rows |-> rows]
    ELSE
        LET cap      == sched[i].Upper_Limit
            rate     == RowRate(sched[i].Rate)
            slab_amt == SlabAmt(rem, cap, prev_cap)
            slab_tax == SlabTax(slab_amt, rate)
            rows2    == IF slab_amt > 0
                        THEN Append(rows, SlabRow(prev_cap, cap, rate, slab_amt, slab_tax))
                        ELSE rows
            tax2     == AddTax(tax, slab_tax)
            rem2     == rem - slab_amt
            prev2    == IF isna(cap) THEN prev_cap ELSE cap[1]
        IN  IF rem2 <= 0 THEN [tax |-> tax2, rows |-> rows2]
            ELSE Slabs(sched, i + 1, rem2, prev2, tax2, rows2)

\* A variant of apply_progressive that applies the rate of the last slab
\* reached to the whole amount.
apply_progressive_cliff(rows, amount, kind) ==
    IF amount <= 0 THEN [tax |-> 0, rows |-> <<>>]
    ELSE LET res == Slabs(sanitize_brackets(rows, kind), 1, amount, 0, 0, <<>>)
         IN  [tax  |-> Times(amount, res.rows[Len(res.rows)].Rate),
              rows |-> res.rows]

\* Lines 26-56: (0, []) for an amount <= 0, else the slabs of the
\* sanitized table.
apply_progressive(rows, amount, kind) ==
    IF amount <= 0 THEN [tax |-> 0, rows |-> <<>>]
    ELSE Slabs(sanitize_brackets(rows, kind), 1, amount, 0, 0, <<>>)

----------------------------------------------------------------------------
(* The bracket run: a table is normalised, normalised again, and applied to *)
(* two amounts.                                                            *)

MaxRows == 2

MaxAmount == 3

\* The caps and rates a raw row is drawn from: no cap, a negative cap, 0,
\* two positive caps; no rate, 0.2, 0.5, 1 (the largest rate taken as it
\* is), 20 (a percentage), 150 (a percentage above 100).
CapValues == {None, Some(0 - Unit), Some(0), Some(Unit), Some(2 * Unit)}

RateValues ==
    {None, Some(200), Some(500), Some(RateScale),
     Some(20 * RateScale), Some(150 * RateScale)}

RawRows == [Upper_Limit : CapValues, Rate : RateValues]

Tables == UNION {[1..n -> RawRows] : n \in 0..MaxRows}

Amounts == {k * Unit : k \in 0..MaxAmount}

NoSchedule == <<>>

\* The script is not running.
NoInput == [country |-> "none"]

NotRun == [shown |-> "none", result |-> None]

ScriptIdle ==
    /\ inp = NoInput
    /\ loc = None
    /\ ovl = NotRun
    /\ pc = "idle"

BInit ==
    /\ ScriptIdle
    /\ df \in Tables
    /\ tie_order \in TieOrders
    /\ stage = "raw"
    /\ out = NoSchedule
    /\ out2 = NoSchedule
    /\ calls = <<>>

Sanitize ==
    /\ stage = "raw"
    /\ out' = sanitize_brackets(df, tie_order)
    /\ stage' = "sanitized"
    /\ UNCHANGED <<df, tie_order, out2, calls, inp, loc, ovl, pc>>

SanitizeAgain ==
    /\ stage = "sanitized"
    /\ out2' = sanitize_brackets(out, tie_order)
    /\ stage' = "resanitized"
    /\ UNCHANGED <<df, tie_order, out, calls, inp, loc, ovl, pc>>

ApplyProgressive ==
    /\ stage = "resanitized"
    /\ Len(calls) < 2
    /\ \E amount \in Amounts :
          /\ Len(calls) = 1 => calls[1].amount <= amount
          /\ calls' = Append(calls,
                 [amount |-> amount, res |-> apply_progressive(df, amount, tie_order)])
    /\ UNCHANGED <<df, tie_order, stage, out, out2, inp, loc, ovl, pc>>

BNext == Sanitize \/ SanitizeAgain \/ ApplyProgressive

SpecBrackets == BInit /\ [][BNext]_vars

----------------------------------------------------------------------------
(* Claims about sanitize_brackets and apply_progressive (SpecBrackets) *)

Sanitized == stage # "raw"

Applied(i) == i <= Len(calls)

\* Every null cap of the schedule comes after every finite cap.
NullsLast(sched) ==
    \A i, j \in 1..Len(sched) :
        (i < j /\ isna(sched[i].Upper_Limit)) => isna(sched[j].Upper_Limit)

\* C1 as stated: whatever the raw rows, the schedule sanitize_brackets
\* returns has exactly one entry whose Upper_Limit is null, and it is the
\* last entry.
C1_ExactlyOneNullLast ==
    Sanitized =>
        /\ NullCount(out) = 1
        /\ isna(out[Len(out)].Upper_Limit)

\* C1 as amended: the schedule has at least one null entry, as many as the
\* raw rows had when they had any, every null entry follows every capped
\* entry, so the last entry is null; it has exactly one null entry when the
\* raw rows had at most one.
C1_NullRowsLast ==
    Sanitized =>
        /\ Len(out) >= 1
        /\ NullCount(out) = Max(1, NullCount(df))
        /\ NullsLast(out)
        /\ isna(out[Len(out)].Upper_Limit)
        /\ (NullCount(df) <= 1 => NullCount(out) = 1)

\* Two capped rows given out of order: they are sorted and the terminal row
\* is appended.
C1_Witness ==
    /\ stage = "sanitized"
    /\ Len(df) = 2
    /\ NullCount(df) = 0
    /\ KeyLess(df[2].Upper_Limit, df[1].Upper_Limit)
    /\ Len(out) = 3
    /\ NullCount(out) = 1

\* C2: sanitize_brackets applied to its own result returns that result
\* (same caps, same rates, same order, same length).
C2_Idempotent ==
    stage = "resanitized" => out2 = out

\* A table is valid when its caps are non-negative and its rates lie in
\* [0, 1] (a missing cap is the open slab, a missing rate is 0).
ValidTable(rows) ==
    \A i \in 1..Len(rows) :
        /\ isna(rows[i].Upper_Limit) \/ rows[i].Upper_Limit[1] >= 0
        /\ isna(rows[i].Rate) \/ (rows[i].Rate[1] >= 0 /\ rows[i].Rate[1] <= RateScale)

\* C3: on a valid table the tax does not decrease when the amount grows.
C3_TaxMonotone ==
    (Applied(2) /\ ValidTable(df) /\ calls[1].amount <= calls[2].amount)
        => calls[1].res.tax <= calls[2].res.tax

\* A valid table of two slabs applied below and above its cap: the tax grows.
C3_Witness ==
    /\ Applied(2)
    /\ ValidTable(df)
    /\ calls[1].amount > 0
    /\ calls[1].amount < calls[2].amount
    /\ Len(calls[1].res.rows) = 1
    /\ Len(calls[2].res.rows) = 2
    /\ calls[1].res.tax < calls[2].res.tax

\* tax(a1)/a1 <= tax(a2)/a2, the amounts counted in Units.
AverageRateGrows(c1, c2) ==
    c1.res.tax * (c2.amount \div Unit) <= c2.res.tax * (c1.amount \div Unit)

\* The rates of a schedule do not decrease from one row to the next.
RatesNonDecreasing(sched) ==
    \A i \in 1..(Len(sched) - 1) :
        RowRate(sched[i].Rate) <= RowRate(sched[i + 1].Rate)

\* C4 as stated: on every valid table the average rate tax/a does not
\* decrease when the amount grows.
C4_Progressive ==
    (Applied(2) /\ ValidTable(df) /\ 0 < calls[1].amount
        /\ calls[1].amount <= calls[2].amount)
        => AverageRateGrows(calls[1], calls[2])

\* C4 as amended: the same, on the valid tables whose sanitized schedule has
\* rates that do not decrease from one row to the next.
C4_ProgressiveWhenRatesGrow ==
    (Applied(2) /\ ValidTable(df) /\ RatesNonDecreasing(out)
        /\ 0 < calls[1].amount /\ calls[1].amount <= calls[2].amount)
        => AverageRateGrows(calls[1], calls[2])

\* A valid table whose rate rises at its cap, applied at the cap and above
\* it: the average rate rises strictly.
C4_Witness ==
    /\ Applied(2)
    /\ ValidTable(df)
    /\ RatesNonDecreasing(out)
    /\ 0 < calls[1].amount
    /\ calls[1].amount < calls[2].amount
    /\ Len(calls[2].res.rows) = 2
    /\ calls[1].res.tax * (calls[2].amount \div Unit)
           < calls[2].res.tax * (calls[1].amount \div Unit)

RECURSIVE SumAmount(_)
SumAmount(rows) ==
    IF rows = <<>> THEN 0 ELSE Head(rows).Amount + SumAmount(Tail(rows))

RECURSIVE SumTax(_)
SumTax(rows) ==
    IF rows = <<>> THEN 0 ELSE Head(rows).Tax + SumTax(Tail(rows))

\* C5: for every table and every amount > 0 the Amount fields of the
\* returned rows add up to the amount, and the returned tax is the sum of
\* the rows' Tax fields.
C5_SlabsCoverAmount ==
    \A i \in 1..Len(calls) :
        calls[i].amount > 0 =>
            /\ SumAmount(calls[i].res.rows) = calls[i].amount
            /\ SumTax(calls[i].res.rows) = calls[i].res.tax
            /\ \A k \in 1..Len(calls[i].res.rows) : calls[i].res.rows[k].Amount > 0

\* A table with no open row, applied above its highest cap: the amount is
\* split over the capped slab and the appended terminal slab.
C5_Witness ==
    /\ Applied(1)
    /\ NullCount(df) = 0
    /\ Len(df) >= 1
    /\ calls[1].amount > 0
    /\ Len(calls[1].res.rows) >= 2
    /\ isna(calls[1].res.rows[Len(calls[1].res.rows)].To)

----------------------------------------------------------------------------
(* One run of the script body, lines 118-293.  The widgets are the         *)
(* collaborators that supply its inputs: the values they return are drawn  *)
(* in AInit.  earned and y1_rsu are drawn directly (lines 118-119 only add *)
(* the pay components up).  fx is drawn from FxValues, which holds 0 and a *)
(* negative rate beside the positive ones: the sidebar widget declares     *)
(* min_value=0.0001, and the body guards every use of fx on its own        *)
(* (lines 151, 169, 185, 198, 247, 269); those guards are what is modelled.*)

Countries == {"Korea", "Taiwan", "Singapore", "Japan", "India", "United States"}

\* Line 148: Korea's flat rate, 0.21.
KOREA_RATE == 210

\* Line 162: Taiwan's exemption threshold, 3,000,000.
TW_THRESHOLD == 3000000 \div TickValue

\* Line 163: the exempt fraction, 0.5.
TW_EXEMPT_FRACTION == 500

\* Lines 216-221: India's surcharge ladder.
SUR_THRESHOLD_HIGH == 20000000 \div TickValue

SUR_THRESHOLD_MID == 10000000 \div TickValue

SUR_THRESHOLD_LOW == 5000000 \div TickValue

SUR_RATE_HIGH == 250

SUR_RATE_MID == 150

SUR_RATE_LOW == 100

\* Line 227: the cess, 0.04.
CESS_RATE == 40

\* x / fx.
Div(x, fx) == x \div fx

\* Line 120.
total_comp == inp.earned + inp.y1_rsu

\* Lines 126-133: the local layer's variables before any branch runs.
LocalStart(total) ==
    [local_tax |-> 0, local_net |-> total,
     earned_usd |-> 0, rsu_usd |-> 0, local_tax_usd |-> 0, local_net_usd |-> 0,
     taxable_total |-> 0, base_tax |-> 0, sur_rate |-> 0, surcharge |-> 0, cess |-> 0]

\* Lines 151-153 (and 169-172, 185-187, 198-200, 247-249): the USD views,
\* set only when fx > 0.
UsdViews(l, fx, earned, y1_rsu) ==
    IF fx > 0
    THEN [l EXCEPT !.earned_usd = Div(earned, fx), !.rsu_usd = Div(y1_rsu, fx),
                   !.local_tax_usd = Div(l.local_tax, fx),
                   !.local_net_usd = Div(l.local_net, fx)]
    ELSE l

\* Lines 148-149.
KoreaTax(total) == Times(total, KOREA_RATE)

\* A variant of lines 162-165 that computes the exemption on earned plus
\* the RSU value.
TaxableTotalExemptsRsu(earned, y1_rsu) ==
    LET above == Max((earned + y1_rsu) - TW_THRESHOLD, 0)
        exempt == Times(above, TW_EXEMPT_FRACTION)
    IN  Max((earned + y1_rsu) - exempt, 0)

\* Lines 162-165: the amount Taiwan's slabs are applied to.
TaxableTotal(earned, y1_rsu) ==
    LET above == Max(earned - TW_THRESHOLD, 0)
        exempt == Times(above, TW_EXEMPT_FRACTION)
        taxable_earned == Max(earned - exempt, 0)
    IN  taxable_earned + y1_rsu

\* A variant of lines 215-223 that compares with >=.
SurchargeRateInclusive(ti) ==
    IF ti >= SUR_THRESHOLD_HIGH THEN SUR_RATE_HIGH
    ELSE IF ti >= SUR_THRESHOLD_MID THEN SUR_RATE_MID
    ELSE IF ti >= SUR_THRESHOLD_LOW THEN SUR_RATE_LOW
    ELSE 0

\* Lines 215-223: the surcharge rate of total income ti.
SurchargeRate(ti) ==
    IF ti > SUR_THRESHOLD_HIGH THEN SUR_RATE_HIGH
    ELSE IF ti > SUR_THRESHOLD_MID THEN SUR_RATE_MID
    ELSE IF ti > SUR_THRESHOLD_LOW THEN SUR_RATE_LOW
    ELSE 0

\* A variant of lines 263-271 that tests fx < 0.
OverlayArmAllowsZeroFx(country, us_overlay, fx) ==
    IF country = "United States" THEN "disabled"
    ELSE IF ~us_overlay THEN "off"
    ELSE IF fx < 0 THEN "error"
    ELSE "computed"

\* Which arm of the US Overlay block runs, lines 263-271.
OverlayArm(country, us_overlay, fx) ==
    IF country = "United States" THEN "disabled"
    ELSE IF ~us_overlay THEN "off"
    ELSE IF fx <= 0 THEN "error"
    ELSE "computed"

\* Line 273.
UsTaxable(earned_usd, rsu_usd, feie, std_ded) ==
    Max((earned_usd + rsu_usd) - feie - std_ded, 0)

\* A variant of line 276 that credits the whole local tax.
ForeignTaxCreditUncapped(local_tax_usd, us_tax) == local_tax_usd

\* Line 276: the foreign tax credit.

ForeignTaxCredit(local_tax_usd, us_tax) == Min(local_tax_usd, us_tax)

\* Line 277.
UsDue(us_tax, ftc) == Max(us_tax - ftc, 0)

\* A variant of line 278 that leaves the local tax out.
CombinedTaxOmitsLocal(local_tax_usd, us_due) == us_due

\* Line 278.

CombinedTax(local_tax_usd, us_due) == local_tax_usd + us_due

\* Line 279.
CombinedNet(earned_usd, rsu_usd, combined_tax) == (earned_usd + rsu_usd) - combined_tax

(* The inputs of a run *)

\* earned runs from 0 to MaxEarned Units (20,500,000: one step above the
\* highest surcharge breakpoint) and y1_rsu from 0 to MaxRsu Units.
MaxEarned == 41

MaxRsu == 1

EarnedValues == {k * Unit : k \in 0..MaxEarned}

RsuValues == {k * Unit : k \in 0..MaxRsu}

FxValues == {0 - 1, 0, 1, 2}

FeieValues == {0, 2 * Unit}

StdDedValues == {0, Unit}

\* The tables the data editors return: a flat one and a two-slab one and,
\* for the US table, a flat rate entered as 150 (150% once sanitized).
LocalTables ==
    { << [Upper_Limit |-> None, Rate |-> Some(200)] >>,
      << [Upper_Limit |-> Some(4 * Unit), Rate |-> Some(50)],
         [Upper_Limit |-> None, Rate |-> Some(300)] >> }

UsTables ==
    { << [Upper_Limit |-> None, Rate |-> Some(100)] >>,
      << [Upper_Limit |-> Some(2 * Unit), Rate |-> Some(100)],
         [Upper_Limit |-> None, Rate |-> Some(400)] >>,
      << [Upper_Limit |-> None, Rate |-> Some(150 * RateScale)] >> }

Inputs ==
    [country : Countries, us_overlay : BOOLEAN, fx : FxValues,
     feie : FeieValues, std_ded : StdDedValues, us_brackets : UsTables,
     brackets : LocalTables, earned : EarnedValues, y1_rsu : RsuValues]

BracketsIdle ==
    /\ df = <<>>
    /\ stage = "idle"
    /\ out = NoSchedule
    /\ out2 = NoSchedule
    /\ calls = <<>>

AInit ==
    /\ BracketsIdle
    /\ tie_order \in TieOrders
    /\ inp \in Inputs
    \* Lines 80-87: the FX widget is disabled for the United States and
    \* returns its default, 1.0.
    /\ inp.country = "United States" => inp.fx = 1
    /\ loc = LocalStart(total_comp)
    /\ ovl = NotRun
    /\ pc = "local"

LocalDone(l) ==
    /\ loc' = l
    /\ pc' = "overlay"
    /\ UNCHANGED <<df, tie_order, stage, out, out2, calls, inp, ovl>>

\* Lines 145-153.
Korea ==
    /\ pc = "local"
    /\ inp.country = "Korea"
    /\ LET tax == KoreaTax(total_comp)
           l   == [loc EXCEPT !.local_tax = tax, !.local_net = total_comp - tax]
       IN  LocalDone(UsdViews(l, inp.fx, inp.earned, inp.y1_rsu))

\* Lines 155-172.
Taiwan ==
    /\ pc = "local"
    /\ inp.country = "Taiwan"
    /\ LET taxable_total == TaxableTotal(inp.earned, inp.y1_rsu)
           tax == apply_progressive(inp.brackets, taxable_total, tie_order).tax
           l   == [loc EXCEPT !.taxable_total = taxable_total,
                              !.local_tax = tax, !.local_net = total_comp - tax]
       IN  LocalDone(UsdViews(l, inp.fx, inp.earned, inp.y1_rsu))

\* Lines 174-187.
Singapore ==
    /\ pc = "local"
    /\ inp.country = "Singapore"
    /\ LET tax == apply_progressive(inp.brackets, total_comp, tie_order).tax
           l   == [loc EXCEPT !.local_tax = tax, !.local_net = total_comp - tax]
       IN  LocalDone(UsdViews(l, inp.fx, inp.earned, inp.y1_rsu))

\* Lines 189-200.
Japan ==
    /\ pc = "local"
    /\ inp.country = "Japan"
    /\ LET tax == apply_progressive(inp.brackets, total_comp, tie_order).tax
           l   == [loc EXCEPT !.local_tax = tax, !.local_net = total_comp - tax]
       IN  LocalDone(UsdViews(l, inp.fx, inp.earned, inp.y1_rsu))

\* Lines 202-249.
India ==
    /\ pc = "local"
    /\ inp.country = "India"
    /\ LET base_tax  == apply_progressive(inp.brackets, total_comp, tie_order).tax
           sur_rate  == SurchargeRate(total_comp)
           surcharge == Times(base_tax, sur_rate)
           cess      == Times(base_tax + surcharge, CESS_RATE)
           tax       == base_tax + surcharge + cess
           l == [loc EXCEPT !.base_tax = base_tax, !.sur_rate = sur_rate,
                            !.surcharge = surcharge, !.cess = cess,
                            !.local_tax = tax, !.local_net = total_comp - tax]
       IN  LocalDone(UsdViews(l, inp.fx, inp.earned, inp.y1_rsu))

\* Lines 251-258: no conversion, the amounts are USD already.
UnitedStates ==
    /\ pc = "local"
    /\ inp.country = "United States"
    /\ LET tax == apply_progressive(inp.us_brackets, total_comp, tie_order).tax
           net == total_comp - tax
       IN  LocalDone([loc EXCEPT !.local_tax = tax, !.local_net = net,
                                 !.earned_usd = inp.earned, !.rsu_usd = inp.y1_rsu,
                                 !.local_tax_usd = tax, !.local_net_usd = net])

OverlayDone(o) ==
    /\ ovl' = o
    /\ pc' = "done"
    /\ UNCHANGED <<df, tie_order, stage, out, out2, calls, inp, loc>>

\* Lines 263-265.
OverlayDisabled ==
    /\ pc = "overlay"
    /\ OverlayArm(inp.country, inp.us_overlay, inp.fx) = "disabled"
    /\ OverlayDone([shown |-> "disabled", result |-> None])

\* Lines 267-268, the checkbox off: only the header is shown.
OverlayOff ==
    /\ pc = "overlay"
    /\ OverlayArm(inp.country, inp.us_overlay, inp.fx) = "off"
    /\ OverlayDone([shown |-> "off", result |-> None])

\* Lines 269-270: st.error("FX must be greater than zero ...").
OverlayBlocked ==
    /\ pc = "overlay"
    /\ OverlayArm(inp.country, inp.us_overlay, inp.fx) = "error"
    /\ OverlayDone([shown |-> "error", result |-> None])

\* Lines 271-293.
OverlayComputed ==
    /\ pc = "overlay"
    /\ OverlayArm(inp.country, inp.us_overlay, inp.fx) = "computed"
    /\ LET us_taxable   == UsTaxable(loc.earned_usd, loc.rsu_usd, inp.feie, inp.std_ded)
           us_tax       == apply_progressive(inp.us_brackets, us_taxable, tie_order).tax
           ftc          == ForeignTaxCredit(loc.local_tax_usd, us_tax)
           us_due       == UsDue(us_tax, ftc)
           combined_tax == CombinedTax(loc.local_tax_usd, us_due)
           combined_net == CombinedNet(loc.earned_usd, loc.rsu_usd, combined_tax)
       IN  OverlayDone([shown |-> "computed",
                        result |-> Some([us_taxable |-> us_taxable, us_tax |-> us_tax,
                                         ftc |-> ftc, us_due |-> us_due,
                                         combined_tax |-> combined_tax,
                                         combined_net |-> combined_net])])

ANext ==
    \/ Korea \/ Taiwan \/ Singapore \/ Japan \/ India \/ UnitedStates
    \/ OverlayDisabled \/ OverlayOff \/ OverlayBlocked \/ OverlayComputed

SpecApp == AInit /\ [][ANext]_vars

----------------------------------------------------------------------------
(* Claims about the local layer and the US overlay (SpecApp) *)

OverlayWasComputed == ovl.shown = "computed"

Result == ovl.result[1]

\* C6: in the overlay the credit is the smaller of the local tax in USD and
\* the tentative tax, so it exceeds neither; the tax due is the tentative
\* tax less the credit, never negative, and 0 whenever the local tax in USD
\* is at least the tentative tax.
C6_CreditCapped ==
    (OverlayWasComputed /\ loc.local_tax_usd >= 0 /\ Result.us_tax >= 0) =>
        /\ Result.ftc <= Result.us_tax
        /\ Result.ftc <= loc.local_tax_usd
        /\ Result.ftc = Result.us_tax \/ Result.ftc = loc.local_tax_usd
        /\ Result.us_due >= 0
        /\ Result.us_due = Result.us_tax - Result.ftc
        /\ loc.local_tax_usd >= Result.us_tax =>
               (Result.ftc = Result.us_tax /\ Result.us_due = 0)

\* The local tax in USD exceeds a positive tentative tax: the credit is the
\* tentative tax and nothing is due.
C6_Witness ==
    /\ OverlayWasComputed
    /\ Result.us_tax > 0
    /\ loc.local_tax_usd > Result.us_tax
    /\ Result.ftc = Result.us_tax
    /\ Result.us_due = 0

\* C7: overlay figures are computed only for a work country other than the
\* United States, with the overlay enabled and fx > 0; with the overlay
\* enabled for such a country and fx <= 0 the block reports the FX error and
\* computes no figure.
C7_OverlayGuard ==
    /\ (OverlayWasComputed \/ ~isna(ovl.result)) =>
           (inp.country # "United States" /\ inp.us_overlay /\ inp.fx > 0)
    /\ (pc = "done" /\ inp.country # "United States" /\ inp.us_overlay /\ inp.fx <= 0) =>
           (ovl.shown = "error" /\ isna(ovl.result))

\* The overlay enabled for Korea with fx = 0: the error, and no figure.
C7_Witness ==
    /\ pc = "done"
    /\ inp.country = "Korea"
    /\ inp.us_overlay
    /\ inp.fx = 0
    /\ ovl.shown = "error"
    /\ isna(ovl.result)

IndiaDone == pc # "local" /\ inp.country = "India"

\* C8: India's surcharge rate is 0.25 above 20,000,000, else 0.15 above
\* 10,000,000, else 0.10 above 5,000,000, else 0, the comparisons strict; and
\* the local tax is the base tax plus the surcharge on the whole base tax
\* plus 4% of their sum.
C8_SurchargeLadder ==
    IndiaDone =>
        /\ total_comp > 20000000 \div TickValue => loc.sur_rate = 250
        /\ (total_comp > 10000000 \div TickValue /\ total_comp <= 20000000 \div TickValue)
               => loc.sur_rate = 150
        /\ (total_comp > 5000000 \div TickValue /\ total_comp <= 10000000 \div TickValue)
               => loc.sur_rate = 100
        /\ total_comp <= 5000000 \div TickValue => loc.sur_rate = 0
        /\ loc.base_tax = apply_progressive(inp.brackets, total_comp, tie_order).tax
        /\ loc.surcharge * RateScale = loc.base_tax * loc.sur_rate
        /\ loc.cess * 25 = loc.base_tax + loc.surcharge
        /\ loc.local_tax = loc.base_tax + loc.surcharge + loc.cess

\* Total compensation of exactly 10,000,000 with a positive base tax: the
\* surcharge is 10% of it, not 15%.
C8_Witness ==
    /\ IndiaDone
    /\ total_comp = 10000000 \div TickValue
    /\ loc.base_tax > 0
    /\ loc.sur_rate = 100
    /\ loc.surcharge * 10 = loc.base_tax

TaiwanDone == pc # "local" /\ inp.country = "Taiwan"

\* C9: in Taiwan the amount given to the slabs is earned less half of what
\* earned exceeds 3,000,000 by, plus the RSU value in full; the local net is
\* earned + rsu less the tax on that amount.  earned = 4,000,000 and rsu = 0
\* under a flat 0.20 table give 3,500,000 taxable and 700,000 of tax.
C9_ExemptionOnEarnedOnly ==
    TaiwanDone =>
        /\ 2 * ((inp.earned + inp.y1_rsu) - loc.taxable_total)
               = Max(inp.earned - 3000000 \div TickValue, 0)
        /\ loc.local_tax = apply_progressive(inp.brackets, loc.taxable_total, tie_order).tax
        /\ loc.local_net = (inp.earned + inp.y1_rsu) - loc.local_tax
        /\ (/\ inp.earned = 4000000 \div TickValue
            /\ inp.y1_rsu = 0
            /\ inp.brackets = << [Upper_Limit |-> None, Rate |-> Some(200)] >>)
               => (/\ loc.taxable_total = 3500000 \div TickValue
                   /\ loc.local_tax = 700000 \div TickValue)

\* earned = 4,000,000 with a positive RSU value: 500,000 is exempt and the
\* RSU value is taxed in full.
C9_Witness ==
    /\ TaiwanDone
    /\ inp.earned = 4000000 \div TickValue
    /\ inp.y1_rsu > 0
    /\ loc.taxable_total = (3500000 \div TickValue) + inp.y1_rsu
    /\ loc.local_tax > 0

\* C10: whenever the overlay is computed on a non-negative local tax and
\* tentative tax, the combined tax is the larger of the two, and the combined
\* net is earned_usd + rsu_usd less it, negative when the tax exceeds the
\* income.
C10_CombinedIsMax ==
    (OverlayWasComputed /\ loc.local_tax_usd >= 0 /\ Result.us_tax >= 0) =>
        /\ Result.combined_tax >= loc.local_tax_usd
        /\ Result.combined_tax >= Result.us_tax
        /\ Result.combined_tax = loc.local_tax_usd \/ Result.combined_tax = Result.us_tax
        /\ Result.combined_net + Result.combined_tax = loc.earned_usd + loc.rsu_usd

\* A tentative tax above both the local tax and the income: the combined tax
\* is the tentative tax and the combined net is negative.
C10_Witness ==
    /\ OverlayWasComputed
    /\ loc.local_tax_usd > 0
    /\ Result.us_tax > loc.local_tax_usd
    /\ Result.combined_tax = Result.us_tax
    /\ Result.combined_net < 0

====
